---- MODULE Spec2Model ----
(***************************************************************************)
(* The chat session of src/components/chat.rs (the Yew component Chat):    *)
(* its roster (users), its history (messages), the input element, the      *)
(* frames it hands to the websocket service's channel and the frames the   *)
(* event bus hands to it.                                                  *)
(*                                                                         *)
(* Strings that are (or may be) parsed as JSON are modelled by what a JSON *)
(* parser sees in them: a text that is a JSON object is the record of its  *)
(* fields, any other text s is [raw |-> s].  A field that holds a JSON     *)
(* array is [array |-> <<...>>], a field that holds null is JNull, a field *)
(* that holds a string holds the model of that string.  Names and message  *)
(* bodies, which are never parsed, are plain strings.  Rust's Option is a  *)
(* sequence of length at most one and Result is a record with an ok flag.  *)
(***************************************************************************)
EXTENDS Integers, Sequences, FiniteSets, TLC

VARIABLES
    username,    \* User.username, read once by Chat::create
    users,       \* Chat.users: Vec<UserProfile>
    messages,    \* Chat.messages: Vec<MessageData>
    chat_input,  \* value of the <input> element behind Chat.chat_input
    outbox,      \* every try_send on Chat.wss.tx so far, with its result
    conn,        \* state of the connection owned by Chat.wss
    panicked,    \* an unwrap() failed: the component is dead
    last_event,  \* history variable: the frame the last step delivered to update, if any
    arrived      \* history variable: payloads of the valid message frames delivered, in order

vars == <<username, users, messages, chat_input, outbox, conn, panicked, last_event, arrived>>

----------------------------------------------------------------------------
(* Bounds of the model *)

MaxHistory == 2    \* message frames are delivered while the history is shorter
MaxSubmits == 1    \* submit intents per session

Usernames == {"alice", "bob"}
Bodies == {"hi"}
InputValues == {[raw |-> ""], [raw |-> "hi"]}

----------------------------------------------------------------------------
(* Option, Result, JSON *)

None == <<>>
Some(x) == <<x>>
Err == [ok |-> FALSE]
Ok(x) == [ok |-> TRUE, v |-> x]

JNull == [null |-> TRUE]
Str(s) == [raw |-> s]
IsObject(t) == "raw" \notin DOMAIN t /\ "null" \notin DOMAIN t /\ "array" \notin DOMAIN t

IsArray(v) == "array" \in DOMAIN v
IsNull(v) == "null" \in DOMAIN v
IsString(v) == ~IsArray(v) /\ ~IsNull(v)

----------------------------------------------------------------------------
(* The wire protocol: serde's derived Deserialize / Serialize *)

\* enum MsgTypes, #[serde(rename_all = "lowercase")]
MsgTypes == {"users", "register", "message"}

\* An Option<T> field of the envelope: absent or null is None
OptionField(t, k) ==
    IF k \notin DOMAIN t THEN None
    ELSE IF IsNull(t[k]) THEN None
    ELSE Some(t[k])

\* Faulty variant of WebSocketMessage_from_str: an unknown messageType falls back
\* to the first variant (as #[serde(other)] on a catch-all would) instead of failing.
WebSocketMessage_from_str_lenient(t) ==
    IF ~IsObject(t) THEN Err
    ELSE IF "messageType" \notin DOMAIN t THEN Err
    ELSE LET da == OptionField(t, "dataArray")
             d == OptionField(t, "data")
         IN  IF da # None /\ ~IsArray(da[1]) THEN Err
             ELSE IF d # None /\ ~IsString(d[1]) THEN Err
             ELSE Ok([message_type |->
                          IF t.messageType \in MsgTypes THEN t.messageType ELSE "users",
                      data_array |-> IF da = None THEN None ELSE Some(da[1].array),
                      data |-> d])

\* serde_json::from_str::<WebSocketMessage>(&s), fields renamed to camelCase
WebSocketMessage_from_str(t) ==
    IF ~IsObject(t) THEN Err
    ELSE IF "messageType" \notin DOMAIN t THEN Err
    ELSE IF t.messageType \notin MsgTypes THEN Err
    ELSE LET da == OptionField(t, "dataArray")
             d == OptionField(t, "data")
         IN  IF da # None /\ ~IsArray(da[1]) THEN Err   \* not a Vec<String>
             ELSE IF d # None /\ ~IsString(d[1]) THEN Err   \* not a String
             ELSE Ok([message_type |-> t.messageType,
                      data_array |-> IF da = None THEN None ELSE Some(da[1].array),
                      data |-> d])

\* serde_json::from_str::<MessageData>(&s)
MessageData_from_str(t) ==
    IF ~IsObject(t) THEN Err
    ELSE IF "from" \notin DOMAIN t \/ "message" \notin DOMAIN t THEN Err
    ELSE Ok([from |-> t.from, message |-> t.message])

\* Faulty variant of WebSocketMessage_to_string: the message type is written under
\* the variant's own name (Register, Message), not in lowercase.
WebSocketMessage_to_string_variant_names(m) ==
    [messageType |-> IF m.message_type = "users" THEN "Users"
                     ELSE IF m.message_type = "register" THEN "Register"
                     ELSE "Message",
     dataArray |-> IF m.data_array = None THEN JNull ELSE [array |-> m.data_array[1]],
     data |-> IF m.data = None THEN JNull ELSE m.data[1]]

\* serde_json::to_string(&message): None is written as null
WebSocketMessage_to_string(m) ==
    [messageType |-> m.message_type,
     dataArray |-> IF m.data_array = None THEN JNull ELSE [array |-> m.data_array[1]],
     data |-> IF m.data = None THEN JNull ELSE m.data[1]]

\* Faulty variant of RegisterMessage: the username put in data_array instead of data.
RegisterMessage_in_array(u) ==
    [message_type |-> "register", data |-> None, data_array |-> Some(<<u>>)]

\* the frame Chat::create builds
RegisterMessage(u) ==
    [message_type |-> "register", data |-> Some(Str(u)), data_array |-> None]

\* Faulty variant of SubmitFrame: the frame is built with the Register type.
SubmitFrame_as_register(value) ==
    [message_type |-> "register", data |-> Some(value), data_array |-> None]

\* the frame Msg::SubmitMessage builds from the input's value
SubmitFrame(value) ==
    [message_type |-> "message", data |-> Some(value), data_array |-> None]

----------------------------------------------------------------------------
(* Roster and history *)

Avatar(u) == "https://avatars.dicebear.com/api/adventurer-neutral/" \o u \o ".svg"

UserProfile(u) == [name |-> u, avatar |-> Avatar(u)]

\* msg.data_array.unwrap_or_default()
UnwrapOrDefault(o) == IF o = None THEN <<>> ELSE o[1]

\* users_from_message.iter().map(|u| UserProfile {..}).collect()
CollectProfiles(names) == [i \in 1..Len(names) |-> UserProfile(names[i])]

\* Faulty variant of Push: the new message is inserted at the front.
Push_front(v, x) == <<x>> \o v

\* self.messages.push(message_data)
Push(v, x) == Append(v, x)

\* view(): self.users.iter().find(|u| u.name == m.from).unwrap() for every message
ViewPanics(us, ms) ==
    \E i \in 1..Len(ms) : ~\E j \in 1..Len(us) : us[j].name = ms[i].from

----------------------------------------------------------------------------
(* Chat::update, Msg::HandleMsg(s): the outcome as a function of the state *)

\* an unwrap() failed before anything was assigned
Panic(us, ms) == [users |-> us, messages |-> ms, panicked |-> TRUE]

\* update returned true: the component is rendered again, and view() may panic
Rendered(us, ms) == [users |-> us, messages |-> ms, panicked |-> ViewPanics(us, ms)]

\* Faulty variant of NotRendered: the default arm is unreachable!().
NotRendered_unreachable(us, ms) == [users |-> us, messages |-> ms, panicked |-> TRUE]

\* update returned false
NotRendered(us, ms) == [users |-> us, messages |-> ms, panicked |-> FALSE]

\* Faulty variant of OnUsers: a new roster starts a new history.
OnUsers_clears_history(us, ms, msg) ==
    Rendered(CollectProfiles(UnwrapOrDefault(msg.data_array)), <<>>)

\* Faulty variant of OnUsers: data_array.unwrap() instead of unwrap_or_default().
OnUsers_unwrap(us, ms, msg) ==
    IF msg.data_array = None THEN Panic(us, ms)
    ELSE Rendered(CollectProfiles(msg.data_array[1]), ms)

\* MsgTypes::Users
OnUsers(us, ms, msg) ==
    Rendered(CollectProfiles(UnwrapOrDefault(msg.data_array)), ms)

\* Faulty variant of OnMessage: a sender the roster lacks is added to it.
OnMessage_adds_sender(us, ms, msg) ==
    IF msg.data = None THEN Panic(us, ms)
    ELSE LET md == MessageData_from_str(msg.data[1])
         IN  IF ~md.ok THEN Panic(us, ms)
             ELSE IF \E j \in 1..Len(us) : us[j].name = md.v.from
                  THEN Rendered(us, Push(ms, md.v))
                  ELSE Rendered(Append(us, UserProfile(md.v.from)), Push(ms, md.v))

\* MsgTypes::Message
OnMessage(us, ms, msg) ==
    IF msg.data = None THEN Panic(us, ms)
    ELSE LET md == MessageData_from_str(msg.data[1])
         IN  IF ~md.ok THEN Panic(us, ms)
             ELSE Rendered(us, Push(ms, md.v))

UpdateHandleMsg(us, ms, t) ==
    LET r == WebSocketMessage_from_str(t)
    IN  IF ~r.ok THEN Panic(us, ms)
        ELSE IF r.v.message_type = "users" THEN OnUsers(us, ms, r.v)
        ELSE IF r.v.message_type = "message" THEN OnMessage(us, ms, r.v)
        ELSE NotRendered(us, ms)

----------------------------------------------------------------------------
(* The frames the event bus may deliver *)

\* the name lists of the users frames: empty, distinct names in both orders, duplicates
NameLists ==
    {<<>>, <<"alice">>, <<"bob">>, <<"alice", "bob">>, <<"bob", "alice">>,
     <<"alice", "alice">>, <<"alice", "bob", "alice">>}

UsersTexts ==
    {[messageType |-> "users", dataArray |-> [array |-> ns]] : ns \in NameLists}
    \cup {[messageType |-> "users"],
          [messageType |-> "users", dataArray |-> JNull],
          [messageType |-> "users", dataArray |-> Str("alice")]}

MessageTexts ==
    {[messageType |-> "message", data |-> [from |-> u, message |-> b]] :
        u \in Usernames, b \in Bodies}

MalformedMessageTexts ==
    {[messageType |-> "message"],
     [messageType |-> "message", data |-> JNull],
     [messageType |-> "message", data |-> Str("hi")],
     [messageType |-> "message", data |-> [from |-> "bob"]],
     [messageType |-> "message", data |-> [message |-> "hi"]]}

RegisterTexts == {[messageType |-> "register", data |-> Str("bob")]}

UndecodableTexts ==
    {Str("not json"),
     [data |-> Str("hi")],
     [messageType |-> "ping"],
     [messageType |-> "Users", dataArray |-> [array |-> <<"alice">>]]}

InboundTexts ==
    UsersTexts \cup MessageTexts \cup MalformedMessageTexts
        \cup RegisterTexts \cup UndecodableTexts

----------------------------------------------------------------------------
(* The session *)

\* last_event when the last step delivered no frame, and when it delivered t
NoFrame == [kind |-> "none"]
Frame(t) == [kind |-> "frame", text |-> t]

\* a Message frame as the protocol defines it: data is the text of {from, message}
IsValidMessageText(t) ==
    /\ IsObject(t)
    /\ "messageType" \in DOMAIN t
    /\ t.messageType = "message"
    /\ "dataArray" \in DOMAIN t => (IsNull(t.dataArray) \/ IsArray(t.dataArray))
    /\ "data" \in DOMAIN t
    /\ IsObject(t.data)
    /\ "from" \in DOMAIN t.data
    /\ "message" \in DOMAIN t.data

\* the ChatMessage a valid Message frame carries
MessagePayload(t) == [from |-> t.data.from, message |-> t.data.message]

\* Faulty variant of Create: the Register frame is built but never sent.
Create_unsent(u, sent) ==
    /\ username = u
    /\ users = <<>>
    /\ messages = <<>>
    /\ chat_input = Str("")
    /\ outbox = <<>>
    /\ conn = "Connecting"
    /\ panicked = ViewPanics(<<>>, <<>>)
    /\ last_event = NoFrame
    /\ arrived = <<>>

\* Chat::create: the Register frame is handed to wss.tx, whatever try_send
\* answers, and the component is rendered for the first time
Create(u, sent) ==
    /\ username = u
    /\ users = <<>>
    /\ messages = <<>>
    /\ chat_input = Str("")
    /\ outbox = <<[text |-> WebSocketMessage_to_string(RegisterMessage(u)), ok |-> sent]>>
    /\ conn = "Connecting"
    /\ panicked = ViewPanics(<<>>, <<>>)
    /\ last_event = NoFrame
    /\ arrived = <<>>

Init == \E u \in Usernames, sent \in BOOLEAN : Create(u, sent)

\* Chat::update on Msg::HandleMsg(t)
HandleMsg(t) ==
    /\ ~panicked
    /\ LET n == UpdateHandleMsg(users, messages, t)
       IN  /\ users' = n.users
           /\ messages' = n.messages
           /\ panicked' = n.panicked
    /\ UNCHANGED <<username, chat_input, outbox, conn>>

\* Faulty variant of SubmitMessage: a failed try_send is tried once more.
SubmitMessage_retry(sent) ==
    /\ ~panicked
    /\ LET e == [text |-> WebSocketMessage_to_string(SubmitFrame(chat_input)), ok |-> sent]
       IN  outbox' = IF sent THEN Append(outbox, e) ELSE Append(Append(outbox, e), e)
    /\ chat_input' = Str("")
    /\ UNCHANGED <<username, users, messages, conn, panicked>>

\* Faulty variant of SubmitMessage: a submit on a closed connection opens a new one.
SubmitMessage_reconnect(sent) ==
    /\ ~panicked
    /\ outbox' = Append(outbox,
          [text |-> WebSocketMessage_to_string(SubmitFrame(chat_input)), ok |-> sent])
    /\ chat_input' = Str("")
    /\ conn' = IF conn = "Closed" THEN "Connecting" ELSE conn
    /\ UNCHANGED <<username, users, messages, panicked>>

\* Chat::update on Msg::SubmitMessage; sent is what try_send answers
SubmitMessage(sent) ==
    /\ ~panicked
    /\ outbox' = Append(outbox,
          [text |-> WebSocketMessage_to_string(SubmitFrame(chat_input)), ok |-> sent])
    /\ chat_input' = Str("")
    /\ UNCHANGED <<username, users, messages, conn, panicked>>

\* the user edits the input element (of a page whose component is alive)
TypeInput(v) ==
    /\ ~panicked
    /\ chat_input' = v
    /\ last_event' = NoFrame
    /\ UNCHANGED arrived
    /\ UNCHANGED <<username, users, messages, outbox, conn, panicked>>

\* the channel's connect notification
OnConnected ==
    /\ conn = "Connecting"
    /\ conn' = "Open"
    /\ last_event' = NoFrame
    /\ UNCHANGED arrived
    /\ UNCHANGED <<username, users, messages, chat_input, outbox, panicked>>

\* the channel's disconnect notification
OnDisconnected ==
    /\ conn = "Open"
    /\ conn' = "Closed"
    /\ last_event' = NoFrame
    /\ UNCHANGED arrived
    /\ UNCHANGED <<username, users, messages, chat_input, outbox, panicked>>

\* The event bus delivers a frame: once the connection is up, and possibly
\* still after it is gone (a frame in flight at the disconnect).
OnFrame ==
    \E t \in InboundTexts :
        /\ conn # "Connecting"
        /\ IsValidMessageText(t) => Len(arrived) < MaxHistory
        /\ HandleMsg(t)
        /\ last_event' = Frame(t)
        /\ arrived' = IF IsValidMessageText(t)
                       THEN Append(arrived, MessagePayload(t))
                       ELSE arrived

Submit ==
    \E sent \in BOOLEAN :
        /\ Len(outbox) < 1 + MaxSubmits
        /\ SubmitMessage(sent)
        /\ last_event' = NoFrame
        /\ UNCHANGED arrived

Type == \E v \in InputValues : TypeInput(v)

Next == OnFrame \/ Submit \/ Type \/ OnConnected \/ OnDisconnected

Spec == Init /\ [][Next]_vars

----------------------------------------------------------------------------
(* Vocabulary of the properties *)

RosterNames(us) == {us[i].name : i \in 1..Len(us)}

\* the order-preserving, de-duplicated name list: the first occurrence of a name stays
RECURSIVE Dedup(_)
Dedup(ns) ==
    IF ns = <<>> THEN <<>>
    ELSE LET front == Dedup(SubSeq(ns, 1, Len(ns) - 1))
             x == ns[Len(ns)]
         IN  IF \E i \in 1..Len(front) : front[i] = x THEN front ELSE Append(front, x)

FrameDelivered == last_event.kind = "frame"

\* the last step delivered a users frame that carries a list of names
UsersFrameDelivered ==
    /\ FrameDelivered
    /\ last_event.text \in UsersTexts
    /\ "dataArray" \in DOMAIN last_event.text
    /\ IsArray(last_event.text.dataArray)

MessageFrameDelivered == FrameDelivered /\ IsValidMessageText(last_event.text)

MalformedMessageDelivered == FrameDelivered /\ last_event.text \in MalformedMessageTexts

\* the envelope is an object whose messageType is none of the three
UnknownTypeText(t) ==
    IsObject(t) /\ "messageType" \in DOMAIN t /\ t.messageType \notin MsgTypes

UndecodableDelivered == FrameDelivered /\ last_event.text \in UndecodableTexts

IsRegisterFor(text, u) == text.messageType = "register" /\ text.data = Str(u)

RegisterSends == {i \in 1..Len(outbox) : outbox[i].text.messageType = "register"}

----------------------------------------------------------------------------
(* Properties *)

\* C1: after a users frame is processed, the roster is exactly the de-duplicated,
\* order-preserving mapping of that frame's name list to profiles.
C1_RosterIsDedupedMapping ==
    UsersFrameDelivered =>
        users = CollectProfiles(Dedup(last_event.text.dataArray.array))

\* C2: the roster never holds two entries with the same name.
C2_RosterNamesDistinct ==
    \A i, j \in 1..Len(users) : users[i].name = users[j].name => i = j

\* C3: the history is exactly the payloads of the valid message frames processed
\* so far, in arrival order (so after n of them its length is n), whatever the
\* roster was and whatever users frames came in between.
C3_HistoryIsArrivals == messages = arrived

\* C3 witness: two different messages have arrived, with a roster change after the first
C3_Witness ==
    /\ Len(arrived) >= 2
    /\ arrived[1] # arrived[2]
    /\ messages = arrived
    /\ Len(users) = 2

\* C4: a message whose sender is not in the roster is appended, and neither
\* processing it nor rendering roster and history afterwards crashes.
C4_UnknownSenderAccepted ==
    /\ MessageFrameDelivered =>
          (messages # <<>> /\ messages[Len(messages)] = MessagePayload(last_event.text))
    /\ (\E i \in 1..Len(messages) : messages[i].from \notin RosterNames(users)) => ~panicked

\* C5: a message frame with a malformed nested payload is dropped: roster and
\* history stay as they were and the failure stops at the decode step.
C5_MalformedMessageDropped ==
    [][MalformedMessageDelivered' =>
          (users' = users /\ messages' = messages /\ ~panicked')]_vars

\* C6: a frame whose messageType is none of users, register, message changes
\* neither the roster nor the history.
C6_UnknownTypeChangesNothing ==
    [][(FrameDelivered' /\ UnknownTypeText(last_event'.text)) =>
          (users' = users /\ messages' = messages)]_vars

\* C6 witness: such a frame was delivered to a session that has a roster and a history
C6_Witness ==
    /\ FrameDelivered
    /\ UnknownTypeText(last_event.text)
    /\ users # <<>>
    /\ messages # <<>>

\* C7: a frame that fails to decode is not fatal: the session goes on.
C7_DecodeErrorNotFatal == UndecodableDelivered => ~panicked

C9_FrameAfterCloseIsNoOp ==
    [][(conn = "Closed" /\ FrameDelivered') =>
          (users' = users /\ messages' = messages)]_vars

LastSent == outbox[Len(outbox)]

\* the step appended exactly one entry to the outbox
OneMoreSent == Len(outbox') = Len(outbox) + 1 /\ SubSeq(outbox', 1, Len(outbox)) = outbox

C12_FailedSubmitKeepsInput ==
    [][(Submit /\ ~LastSent'.ok) => chat_input' = chat_input]_vars

\* C13: a failed send changes nothing of the session (roster, history, connection,
\* liveness), and nothing is sent again on the session's own account: the outbox
\* grows only by one Message frame per submit, never by a second Register.
C13_SendFailureIgnored ==
    [][/\ (Submit /\ ~LastSent'.ok) =>
             (users' = users /\ messages' = messages /\ conn' = conn /\ panicked' = panicked)
       /\ outbox' # outbox =>
             (Submit /\ OneMoreSent /\ LastSent'.text.messageType = "message")]_vars

\* C13 witness: the Register send and a submit's send both failed; the session is
\* open and alive, with its roster
C13_Witness ==
    /\ Len(outbox) = 2
    /\ ~outbox[1].ok
    /\ ~outbox[2].ok
    /\ conn = "Open"
    /\ ~panicked
    /\ users # <<>>

\* the whole inbound decode of update: the envelope, and for a Message frame the
\* nested payload
InboundDecode(t) ==
    LET r == WebSocketMessage_from_str(t)
    IN  IF ~r.ok THEN Err
        ELSE IF r.v.message_type # "message" THEN r
        ELSE IF r.v.data = None THEN Err
        ELSE IF ~MessageData_from_str(r.v.data[1]).ok THEN Err
        ELSE r

\* C14 as claimed: the session's inbound decode succeeds on every frame the
\* session has encoded and sent, and yields that frame.
C14_DecodeInvertsEncode ==
    \A i \in 1..Len(outbox) :
        LET r == InboundDecode(outbox[i].text)
        IN  r.ok /\ WebSocketMessage_to_string(r.v) = outbox[i].text

\* C14 as amended: decoding the envelope (WebSocketMessage) inverts encoding for
\* every Register and Message frame the session sends; the nested {from, message}
\* decode of inbound Message frames is not part of it, a sent frame's data being
\* the bare body.
C14_EnvelopeDecodeInvertsEncode ==
    /\ [](\A i \in 1..Len(outbox) :
            LET r == WebSocketMessage_from_str(outbox[i].text)
            IN  /\ r.ok
                /\ WebSocketMessage_to_string(r.v) = outbox[i].text
                /\ i = 1 => r.v = [message_type |-> "register",
                                   data_array |-> None,
                                   data |-> Some(Str(username))])
    /\ [][Submit =>
            WebSocketMessage_from_str(LastSent'.text) =
                Ok([message_type |-> "message",
                    data_array |-> None,
                    data |-> Some(chat_input)])]_vars

\* C14 witness: a Register frame and a Message frame with a non-empty body were sent
C14_Witness ==
    /\ Len(outbox) = 2
    /\ outbox[1].text.messageType = "register"
    /\ outbox[2].text.messageType = "message"
    /\ outbox[2].text.data = Str("hi")

\* an envelope that decodes to the Register type
IsRegisterText(t) ==
    IsObject(t) /\ "messageType" \in DOMAIN t /\ t.messageType = "register"

\* a users frame without a dataArray (absent, or null)
UsersTextWithoutArray(t) ==
    /\ IsObject(t)
    /\ "messageType" \in DOMAIN t
    /\ t.messageType = "users"
    /\ "dataArray" \in DOMAIN t => IsNull(t.dataArray)

\* C15: an inbound register frame is a no-op: roster and history unchanged,
\* nothing sent, and no error.
C15_InboundRegisterIsNoOp ==
    [][(FrameDelivered' /\ IsRegisterText(last_event'.text)) =>
          /\ users' = users /\ messages' = messages
          /\ outbox' = outbox
          /\ ~panicked']_vars

\* C15 witness: a register frame was delivered to a session with a roster and a history
C15_Witness ==
    /\ FrameDelivered
    /\ IsRegisterText(last_event.text)
    /\ users # <<>>
    /\ messages # <<>>
    /\ ~panicked

\* C16: the history only grows at its end: what it held before a step is a prefix
\* of what it holds after, whatever the step.
C16_HistoryAppendOnly ==
    [][/\ Len(messages') >= Len(messages)
       /\ SubSeq(messages', 1, Len(messages)) = messages]_vars

\* C16 witness: a users frame was processed after two messages, and a submit was made
C16_Witness ==
    /\ Len(messages) >= 2
    /\ FrameDelivered
    /\ last_event.text \in UsersTexts
    /\ Len(outbox) > 1

\* C17: a users frame leaves the history alone, a message frame leaves the roster
\* alone, and neither sends anything.
C17_FrameTouchesOwnState ==
    [][FrameDelivered' =>
          /\ last_event'.text \in UsersTexts => (messages' = messages /\ outbox' = outbox)
          /\ IsValidMessageText(last_event'.text) => (users' = users /\ outbox' = outbox)]_vars

\* C17 witness: a message frame from a sender the roster lacks was processed
C17_Witness ==
    /\ MessageFrameDelivered
    /\ users # <<>>
    /\ MessagePayload(last_event.text).from \notin RosterNames(users)
    /\ messages # <<>>

\* C18: a users frame without a dataArray is accepted and empties the roster.
C18_UsersWithoutArrayEmptiesRoster ==
    [][(FrameDelivered' /\ UsersTextWithoutArray(last_event'.text)) =>
          /\ users' = <<>>
          /\ messages' = messages
          /\ messages = <<>> => ~panicked']_vars

\* C18 witness: such a frame was processed by a session without history, which is alive
C18_Witness ==
    /\ FrameDelivered
    /\ UsersTextWithoutArray(last_event.text)
    /\ users = <<>>
    /\ messages = <<>>
    /\ ~panicked

\* C19 as claimed: every Message frame in the outbox comes after a Register frame
\* for the session's identity that the channel accepted.
C19_MessageAfterAcceptedRegister ==
    \A i \in 1..Len(outbox) :
        outbox[i].text.messageType = "message" =>
            \E j \in 1..(i - 1) :
                IsRegisterFor(outbox[j].text, username) /\ outbox[j].ok

\* C19 as amended: every Message frame in the outbox comes after the try_send of a
\* Register frame for the session's identity, accepted by the channel or not.
C19_MessageAfterRegisterAttempt ==
    \A i \in 1..Len(outbox) :
        outbox[i].text.messageType = "message" =>
            \E j \in 1..(i - 1) : IsRegisterFor(outbox[j].text, username)

\* C19 witness: a Message frame was sent by a session whose Register send had failed
C19_Witness ==
    /\ Len(outbox) = 2
    /\ IsRegisterFor(outbox[1].text, username)
    /\ ~outbox[1].ok
    /\ outbox[2].text.messageType = "message"
    /\ outbox[2].ok

====
